---- MODULE Spec2Model ----
(***************************************************************************)
(* Model of python/paddle/vision/transforms/functional.py: the dispatcher  *)
(* of image transforms over the three backends F_pil, F_cv2 and F_t, the   *)
(* argument validation of affine, the affine matrix builder and the        *)
(* perspective coefficient solver.                                         *)
(*                                                                         *)
(* Numbers are exact rationals <<n, d>> (d > 0, lowest terms); floating    *)
(* point rounding is not modelled.  An angle in radians is carried as the  *)
(* pair <<cos, sin>> of its direction, so that math.cos, math.sin and      *)
(* math.tan are exact on the angles the model draws.                       *)
(***************************************************************************)
EXTENDS Integers, Sequences, FiniteSets, TLC

VARIABLES pc, call, result, events

vars == <<pc, call, result, events>>

(***************************************************************************)
(* Bounds of the model.                                                    *)
(***************************************************************************)
\* largest rank of a numeric buffer that is drawn (ranks 2..MaxRank)
MaxRank == 4
\* longest translate / shear / center sequence that is drawn (lengths 0..MaxLen)
MaxLen == 3
\* longest padding sequence that is drawn (lengths 1..MaxPadLen)
MaxPadLen == 5
\* largest coordinate of a center or translation drawn for the matrix builder
MaxCoord == 2
\* largest side of a quadrilateral drawn for the perspective solver
MaxSide == 2

(***************************************************************************)
(* Exact rational arithmetic: the float operators +, -, *, / of the code.  *)
(***************************************************************************)
Abs(n) == IF n < 0 THEN -n ELSE n

RECURSIVE GCD(_, _)
GCD(a, b) == IF b = 0 THEN a ELSE GCD(b, a % b)

Rat(n, d) ==
    LET g == GCD(Abs(n), Abs(d))
        s == IF d < 0 THEN -1 ELSE 1
    IN  <<(s * n) \div g, (s * d) \div g>>

R(n) == <<n, 1>>

RAdd(x, y) == Rat(x[1] * y[2] + y[1] * x[2], x[2] * y[2])
RNeg(x) == <<-x[1], x[2]>>
RSub(x, y) == RAdd(x, RNeg(y))
RMul(x, y) == Rat(x[1] * y[1], x[2] * y[2])
RDiv(x, y) == Rat(x[1] * y[2], x[2] * y[1])
RLeq(x, y) == x[1] * y[2] <= y[1] * x[2]
RIsZero(x) == x[1] = 0
IsPositive(x) == x[1] > 0

(***************************************************************************)
(* math.radians, math.cos, math.sin, math.tan on the angles of the model:  *)
(* the multiples of 90 degrees and the angles of the 3-4-5 triangle        *)
(* (36.87 and 53.13 degrees, to two decimals).                             *)
(***************************************************************************)
Deg0 == R(0)
Deg90 == R(90)
Deg180 == R(180)
DegM90 == R(-90)
Deg360 == R(360)
Deg37 == Rat(3687, 100)
Deg53 == Rat(5313, 100)
DegM37 == Rat(-3687, 100)

radians(deg) ==
    CASE deg = Deg0   -> <<R(1), R(0)>>
      [] deg = Deg360 -> <<R(1), R(0)>>
      [] deg = Deg90  -> <<R(0), R(1)>>
      [] deg = Deg180 -> <<R(-1), R(0)>>
      [] deg = DegM90 -> <<R(0), R(-1)>>
      [] deg = Deg37  -> <<Rat(4, 5), Rat(3, 5)>>
      [] deg = Deg53  -> <<Rat(3, 5), Rat(4, 5)>>
      [] deg = DegM37 -> <<Rat(4, 5), Rat(-3, 5)>>

cos(t) == t[1]
sin(t) == t[2]
tan(t) == RDiv(t[2], t[1])
\* the angle u - v
AngleSub(u, v) ==
    <<RAdd(RMul(u[1], v[1]), RMul(u[2], v[2])),
      RSub(RMul(u[2], v[1]), RMul(u[1], v[2]))>>

(***************************************************************************)
(* _get_affine_matrix: the inverse matrix C * RSS^-1 * C^-1 * T^-1.        *)
(***************************************************************************)
NoError == "none"

\* Rotate and Shear without scaling: <<a, b, c, d>>
RotateShear_NoRotationTerm(rot, sx, sy) ==
    LET a == RDiv(cos(AngleSub(rot, sy)), cos(sy))
        b == RDiv(RMul(RNeg(cos(AngleSub(rot, sy))), tan(sx)), cos(sy))
        c == RDiv(sin(AngleSub(rot, sy)), cos(sy))
        d == RAdd(RDiv(RMul(RNeg(sin(AngleSub(rot, sy))), tan(sx)), cos(sy)), cos(rot))
    IN  <<a, b, c, d>>

RotateShear(rot, sx, sy) ==
    LET a == RDiv(cos(AngleSub(rot, sy)), cos(sy))
        b == RSub(RDiv(RMul(RNeg(cos(AngleSub(rot, sy))), tan(sx)), cos(sy)), sin(rot))
        c == RDiv(sin(AngleSub(rot, sy)), cos(sy))
        d == RAdd(RDiv(RMul(RNeg(sin(AngleSub(rot, sy))), tan(sx)), cos(sy)), cos(rot))
    IN  <<a, b, c, d>>

\* the rotation matrix with scale and shear left as it is: [a, b, 0, c, d, 0] / scale
InvertedRSS_NotInverted(abcd, scale) ==
    LET m == <<abcd[1], abcd[2], R(0), abcd[3], abcd[4], R(0)>>
    IN  [i \in 1..6 |-> RDiv(m[i], scale)]

\* Inverted rotation matrix with scale and shear: [d, -b, 0, -c, a, 0] / scale
InvertedRSS(abcd, scale) ==
    LET m == <<abcd[4], RNeg(abcd[2]), R(0), RNeg(abcd[3]), abcd[1], R(0)>>
    IN  [i \in 1..6 |-> RDiv(m[i], scale)]

\* matrix[2] and matrix[5] after RSS^-1 * C^-1 * T^-1, without the final C
ApplyCenter_NoPostShift(m, cx, cy, tx, ty) ==
    LET m2 == RAdd(m[3], RAdd(RMul(m[1], RSub(RNeg(cx), tx)),
                              RMul(m[2], RSub(RNeg(cy), ty))))
        m5 == RAdd(m[6], RAdd(RMul(m[4], RSub(RNeg(cx), tx)),
                              RMul(m[5], RSub(RNeg(cy), ty))))
    IN  <<m[1], m[2], m2, m[4], m[5], m5>>

\* matrix[2] and matrix[5] after C * RSS^-1 * C^-1 * T^-1
ApplyCenter(m, cx, cy, tx, ty) ==
    LET m2 == RAdd(m[3], RAdd(RMul(m[1], RSub(RNeg(cx), tx)),
                              RMul(m[2], RSub(RNeg(cy), ty))))
        m5 == RAdd(m[6], RAdd(RMul(m[4], RSub(RNeg(cx), tx)),
                              RMul(m[5], RSub(RNeg(cy), ty))))
    IN  <<m[1], m[2], RAdd(m2, cx), m[4], m[5], RAdd(m5, cy)>>

\* the translation applied with the wrong sign: -cx + tx instead of -cx - tx
_get_affine_matrix_translate_added(center, angle, translate, scale, shear) ==
    LET rot == radians(angle)
        sx == radians(shear[1])
        sy == radians(shear[2])
    IN  IF Len(center) # 2 \/ Len(translate) # 2
        THEN [raised |-> "ValueError", matrix |-> <<>>]
        ELSE IF RIsZero(scale)
        THEN [raised |-> "ZeroDivisionError", matrix |-> <<>>]
        ELSE [raised |-> NoError,
              matrix |-> ApplyCenter(InvertedRSS(RotateShear(rot, sx, sy), scale),
                                     center[1], center[2],
                                     RNeg(translate[1]), RNeg(translate[2]))]

\* center and translate are sequences of numbers, shear a sequence of two
\* angles in degrees; "cx, cy = center" raises ValueError unless Len = 2
_get_affine_matrix(center, angle, translate, scale, shear) ==
    LET rot == radians(angle)
        sx == radians(shear[1])
        sy == radians(shear[2])
    IN  IF Len(center) # 2 \/ Len(translate) # 2
        THEN [raised |-> "ValueError", matrix |-> <<>>]
        ELSE IF RIsZero(scale)
        THEN [raised |-> "ZeroDivisionError", matrix |-> <<>>]
        ELSE [raised |-> NoError,
              matrix |-> ApplyCenter(InvertedRSS(RotateShear(rot, sx, sy), scale),
                                     center[1], center[2],
                                     translate[1], translate[2])]

(***************************************************************************)
(* _get_perspective_coeffs: an 8 x 8 linear system, two rows for each      *)
(* pair (p1, p2) = (end point, start point), solved by np.linalg.lstsq.    *)
(***************************************************************************)
\* a_matrix[2 * i, :], with x and y of p1 exchanged in the first two columns
a_matrix_row_x_swapped(p1, p2) ==
    <<R(p1[2]), R(p1[1]), R(1), R(0), R(0), R(0),
      R(-p2[1] * p1[1]), R(-p2[1] * p1[2])>>

\* a_matrix[2 * i, :]
a_matrix_row_x(p1, p2) ==
    <<R(p1[1]), R(p1[2]), R(1), R(0), R(0), R(0),
      R(-p2[1] * p1[1]), R(-p2[1] * p1[2])>>

\* a_matrix[2 * i + 1, :]
a_matrix_row_y(p1, p2) ==
    <<R(0), R(0), R(0), R(p1[1]), R(p1[2]), R(1),
      R(-p2[2] * p1[1]), R(-p2[2] * p1[2])>>

\* the rows in the order of enumerate(zip(endpoints, startpoints))
a_matrix(startpoints, endpoints) ==
    [k \in 1..(2 * Len(startpoints)) |->
        LET i == (k + 1) \div 2
        IN  IF k % 2 = 1
            THEN a_matrix_row_x(endpoints[i], startpoints[i])
            ELSE a_matrix_row_y(endpoints[i], startpoints[i])]

\* the right-hand side with the x and y of every start point exchanged
b_matrix_yx(startpoints) ==
    [k \in 1..(2 * Len(startpoints)) |->
        LET i == (k + 1) \div 2
        IN  IF k % 2 = 1 THEN R(startpoints[i][2]) ELSE R(startpoints[i][1])]

\* np.array(startpoints).reshape([8])
b_matrix(startpoints) ==
    [k \in 1..(2 * Len(startpoints)) |->
        LET i == (k + 1) \div 2
        IN  IF k % 2 = 1 THEN R(startpoints[i][1]) ELSE R(startpoints[i][2])]

\* Gauss-Jordan elimination of the augmented matrix M (n rows, n + 1 columns)
RECURSIVE Eliminate(_, _)
Eliminate(M, col) ==
    LET n == Len(M)
    IN  IF col > n
        THEN [full_rank |-> TRUE, M |-> M]
        ELSE LET cands == {r \in col..n : ~RIsZero(M[r][col])}
             IN  IF cands = {}
                 THEN [full_rank |-> FALSE, M |-> M]
                 ELSE LET p == CHOOSE r \in cands : \A q \in cands : r <= q
                          sw == [M EXCEPT ![col] = M[p], ![p] = M[col]]
                          prow == [j \in 1..(n + 1) |-> RDiv(sw[col][j], sw[col][col])]
                          nxt == [i \in 1..n |->
                                    IF i = col
                                    THEN prow
                                    ELSE [j \in 1..(n + 1) |->
                                            RSub(sw[i][j], RMul(sw[i][col], prow[j]))]]
                      IN  Eliminate(nxt, col + 1)

\* np.linalg.lstsq(a, b)[0] for a square system: the unique solution when a
\* has full rank; the minimum-norm least-squares solution of a rank-deficient
\* system is not computed (x is left empty)
lstsq(a, b) ==
    LET n == Len(a)
        e == Eliminate([i \in 1..n |-> Append(a[i], b[i])], 1)
    IN  IF e.full_rank
        THEN [full_rank |-> TRUE, x |-> [i \in 1..n |-> e.M[i][n + 1]]]
        ELSE [full_rank |-> FALSE, x |-> <<>>]

_get_perspective_coeffs(startpoints, endpoints) ==
    lstsq(a_matrix(startpoints, endpoints), b_matrix(startpoints))

(***************************************************************************)
(* Image values and the representation tests.  An image is a record: its   *)
(* Python class, the rank of its buffer, its width w and height h, and its *)
(* dtype.  PIL reports size = (w, h); an ndarray has shape (h, w[, c]); a  *)
(* Tensor has shape (c, h, w).                                             *)
(***************************************************************************)
_is_pil_image(img) == img.cls = "Image"

_is_tensor_image(img) == img.cls \in {"Tensor", "Variable"}

_is_numpy_image(img) == img.cls = "ndarray" /\ img.ndim \in {2, 3}

\* the test that opens the public operations
is_image(img) ==
    _is_pil_image(img) \/ _is_numpy_image(img) \/ _is_tensor_image(img)

\* the representation kind of the spec: grid-image, array-image, tensor-image
Kind(img) ==
    IF _is_pil_image(img) THEN "grid"
    ELSE IF _is_numpy_image(img) THEN "array"
    ELSE IF _is_tensor_image(img) THEN "tensor"
    ELSE "none"

\* img.size of a PIL image
size(img) == <<R(img.w), R(img.h)>>

\* img.shape of an ndarray (rows first) or of a CHW Tensor
shape(img) ==
    IF img.cls = "ndarray"
    THEN IF img.ndim = 2 THEN <<R(img.h), R(img.w)>>
         ELSE <<R(img.h), R(img.w)>> \o [i \in 1..(img.ndim - 2) |-> R(3)]
    ELSE <<R(3), R(img.h), R(img.w)>>

(***************************************************************************)
(* Calls of the backends F_pil, F_cv2 and F_t.  Their code is outside this *)
(* file: a backend that is invoked either returns or raises its own error. *)
(***************************************************************************)
BackendOutcomes == {"ok", "error"}

BackendKind(be) ==
    CASE be = "F_pil" -> "grid"
      [] be = "F_cv2" -> "array"
      [] be = "F_t"   -> "tensor"

\* what a backend function returns: to_tensor returns a Tensor whatever its
\* input, every other function a value of the backend's own representation
BackendReturns(be, fn) ==
    IF fn = "to_tensor" THEN "tensor" ELSE BackendKind(be)

Raise(category, exc, arg, evs) ==
    [raised |-> category, exc |-> exc, arg |-> arg, ret |-> "none", events |-> evs]

\* "return F_x.fn(args)" after the events evs
ReturnBackend(be, fn, args, evs, bo) ==
    LET e == Append(evs, [ev |-> "backend", be |-> be, fn |-> fn, args |-> args])
    IN  IF bo = "ok"
        THEN [raised |-> NoError, exc |-> "none", arg |-> "none",
              ret |-> BackendReturns(be, fn), events |-> e]
        ELSE Raise("BackendError", "Exception", "none", e)

RaiseNotImage == Raise("UnsupportedType", "TypeError", "img", <<>>)

(***************************************************************************)
(* The public operations that only dispatch.                               *)
(***************************************************************************)
to_tensor(pic, data_format, bo) ==
    IF ~is_image(pic) THEN RaiseNotImage
    ELSE IF _is_pil_image(pic)
    THEN ReturnBackend("F_pil", "to_tensor", [img |-> pic, data_format |-> data_format], <<>>, bo)
    ELSE IF _is_numpy_image(pic)
    THEN ReturnBackend("F_cv2", "to_tensor", [img |-> pic, data_format |-> data_format], <<>>, bo)
    ELSE [raised |-> NoError, exc |-> "none", arg |-> "none", ret |-> "tensor",
          events |-> IF data_format \in {"CHW", "chw"}
                     THEN <<>>
                     ELSE <<[ev |-> "transpose", axes |-> <<1, 2, 0>>]>>]

resize_tensor_to_cv2(img, sz, interpolation, bo) ==
    IF ~is_image(img) THEN RaiseNotImage
    ELSE IF _is_pil_image(img)
    THEN ReturnBackend("F_pil", "resize", [img |-> img, size |-> sz, interpolation |-> interpolation], <<>>, bo)
    ELSE IF _is_tensor_image(img)
    THEN ReturnBackend("F_cv2", "resize", [img |-> img, size |-> sz, interpolation |-> interpolation], <<>>, bo)
    ELSE ReturnBackend("F_t", "resize", [img |-> img, size |-> sz, interpolation |-> interpolation], <<>>, bo)

resize(img, sz, interpolation, bo) ==
    IF ~is_image(img) THEN RaiseNotImage
    ELSE IF _is_pil_image(img)
    THEN ReturnBackend("F_pil", "resize", [img |-> img, size |-> sz, interpolation |-> interpolation], <<>>, bo)
    ELSE IF _is_tensor_image(img)
    THEN ReturnBackend("F_t", "resize", [img |-> img, size |-> sz, interpolation |-> interpolation], <<>>, bo)
    ELSE ReturnBackend("F_cv2", "resize", [img |-> img, size |-> sz, interpolation |-> interpolation], <<>>, bo)

\* a pad that checks the padding length itself before dispatch
pad_validating(img, padding, fill, padding_mode, bo) ==
    LET a == [img |-> img, padding |-> padding, fill |-> fill, padding_mode |-> padding_mode]
    IN  IF ~is_image(img) THEN RaiseNotImage
        ELSE IF Len(padding.v) \notin {1, 2, 4}
        THEN Raise("InvalidArgument", "ValueError", "padding", <<>>)
        ELSE IF _is_pil_image(img) THEN ReturnBackend("F_pil", "pad", a, <<>>, bo)
        ELSE IF _is_tensor_image(img) THEN ReturnBackend("F_t", "pad", a, <<>>, bo)
        ELSE ReturnBackend("F_cv2", "pad", a, <<>>, bo)

pad(img, padding, fill, padding_mode, bo) ==
    LET a == [img |-> img, padding |-> padding, fill |-> fill, padding_mode |-> padding_mode]
    IN  IF ~is_image(img) THEN RaiseNotImage
        ELSE IF _is_pil_image(img) THEN ReturnBackend("F_pil", "pad", a, <<>>, bo)
        ELSE IF _is_tensor_image(img) THEN ReturnBackend("F_t", "pad", a, <<>>, bo)
        ELSE ReturnBackend("F_cv2", "pad", a, <<>>, bo)

crop(img, top, left, height, width, bo) ==
    LET a == [img |-> img, top |-> top, left |-> left, height |-> height, width |-> width]
    IN  IF ~is_image(img) THEN RaiseNotImage
        ELSE IF _is_pil_image(img) THEN ReturnBackend("F_pil", "crop", a, <<>>, bo)
        ELSE IF _is_tensor_image(img) THEN ReturnBackend("F_t", "crop", a, <<>>, bo)
        ELSE ReturnBackend("F_cv2", "crop", a, <<>>, bo)

center_crop(img, output_size, bo) ==
    LET a == [img |-> img, output_size |-> output_size]
    IN  IF ~is_image(img) THEN RaiseNotImage
        ELSE IF _is_pil_image(img) THEN ReturnBackend("F_pil", "center_crop", a, <<>>, bo)
        ELSE IF _is_tensor_image(img) THEN ReturnBackend("F_t", "center_crop", a, <<>>, bo)
        ELSE ReturnBackend("F_cv2", "center_crop", a, <<>>, bo)

hflip(img, bo) ==
    IF ~is_image(img) THEN RaiseNotImage
    ELSE IF _is_pil_image(img) THEN ReturnBackend("F_pil", "hflip", [img |-> img], <<>>, bo)
    ELSE IF _is_tensor_image(img) THEN ReturnBackend("F_t", "hflip", [img |-> img], <<>>, bo)
    ELSE ReturnBackend("F_cv2", "hflip", [img |-> img], <<>>, bo)

vflip(img, bo) ==
    IF ~is_image(img) THEN RaiseNotImage
    ELSE IF _is_pil_image(img) THEN ReturnBackend("F_pil", "vflip", [img |-> img], <<>>, bo)
    ELSE IF _is_tensor_image(img) THEN ReturnBackend("F_t", "vflip", [img |-> img], <<>>, bo)
    ELSE ReturnBackend("F_cv2", "vflip", [img |-> img], <<>>, bo)

\* the ndarray is passed as img.astype(np.uint8)
adjust_brightness(img, brightness_factor, bo) ==
    IF ~is_image(img) THEN RaiseNotImage
    ELSE IF _is_pil_image(img)
    THEN ReturnBackend("F_pil", "adjust_brightness", [img |-> img, factor |-> brightness_factor], <<>>, bo)
    ELSE IF _is_numpy_image(img)
    THEN ReturnBackend("F_cv2", "adjust_brightness",
                       [img |-> [img EXCEPT !.dtype = "uint8"], factor |-> brightness_factor], <<>>, bo)
    ELSE ReturnBackend("F_t", "adjust_brightness", [img |-> img, factor |-> brightness_factor], <<>>, bo)

adjust_contrast(img, contrast_factor, bo) ==
    LET a == [img |-> img, factor |-> contrast_factor]
    IN  IF ~is_image(img) THEN RaiseNotImage
        ELSE IF _is_pil_image(img) THEN ReturnBackend("F_pil", "adjust_contrast", a, <<>>, bo)
        ELSE IF _is_numpy_image(img) THEN ReturnBackend("F_cv2", "adjust_contrast", a, <<>>, bo)
        ELSE ReturnBackend("F_t", "adjust_contrast", a, <<>>, bo)

adjust_saturation(img, saturation_factor, bo) ==
    LET a == [img |-> img, factor |-> saturation_factor]
    IN  IF ~is_image(img) THEN RaiseNotImage
        ELSE IF _is_pil_image(img) THEN ReturnBackend("F_pil", "adjust_saturation", a, <<>>, bo)
        ELSE IF _is_numpy_image(img) THEN ReturnBackend("F_cv2", "adjust_saturation", a, <<>>, bo)
        ELSE ReturnBackend("F_t", "adjust_saturation", a, <<>>, bo)

\* the array test left out: whatever is not a PIL image goes to F_t
adjust_hue_array_to_tensor(img, hue_factor, bo) ==
    LET a == [img |-> img, factor |-> hue_factor]
    IN  IF ~is_image(img) THEN RaiseNotImage
        ELSE IF _is_pil_image(img) THEN ReturnBackend("F_pil", "adjust_hue", a, <<>>, bo)
        ELSE ReturnBackend("F_t", "adjust_hue", a, <<>>, bo)

adjust_hue(img, hue_factor, bo) ==
    LET a == [img |-> img, factor |-> hue_factor]
    IN  IF ~is_image(img) THEN RaiseNotImage
        ELSE IF _is_pil_image(img) THEN ReturnBackend("F_pil", "adjust_hue", a, <<>>, bo)
        ELSE IF _is_numpy_image(img) THEN ReturnBackend("F_cv2", "adjust_hue", a, <<>>, bo)
        ELSE ReturnBackend("F_t", "adjust_hue", a, <<>>, bo)

\* tuple(x) of a list x
as_tuple(x) == IF x.ty = "list" THEN [x EXCEPT !.ty = "tuple"] ELSE x

rotate(img, angle, interpolation, expand, center, fill, bo) ==
    LET a == [img |-> img, angle |-> angle, interpolation |-> interpolation,
              expand |-> expand, center |-> as_tuple(center), fill |-> as_tuple(fill)]
    IN  IF ~is_image(img) THEN RaiseNotImage
        ELSE IF _is_pil_image(img) THEN ReturnBackend("F_pil", "rotate", a, <<>>, bo)
        ELSE IF _is_tensor_image(img) THEN ReturnBackend("F_t", "rotate", a, <<>>, bo)
        ELSE ReturnBackend("F_cv2", "rotate", a, <<>>, bo)

to_grayscale(img, num_output_channels, bo) ==
    LET a == [img |-> img, num_output_channels |-> num_output_channels]
    IN  IF ~is_image(img) THEN RaiseNotImage
        ELSE IF _is_pil_image(img) THEN ReturnBackend("F_pil", "to_grayscale", a, <<>>, bo)
        ELSE IF _is_tensor_image(img) THEN ReturnBackend("F_t", "to_grayscale", a, <<>>, bo)
        ELSE ReturnBackend("F_cv2", "to_grayscale", a, <<>>, bo)

\* np.array(img).astype(np.float32) of a PIL image
pil_to_array(img) == [img EXCEPT !.cls = "ndarray", !.dtype = "float32"]

\* no representation test: whatever is not a Tensor goes to F_cv2
normalize(img, mean, std, data_format, to_rgb, bo) ==
    IF _is_tensor_image(img)
    THEN ReturnBackend("F_t", "normalize",
                       [img |-> img, mean |-> mean, std |-> std, data_format |-> data_format], <<>>, bo)
    ELSE ReturnBackend("F_cv2", "normalize",
                       [img |-> IF _is_pil_image(img) THEN pil_to_array(img) ELSE img,
                        mean |-> mean, std |-> std, data_format |-> data_format,
                        to_rgb |-> to_rgb], <<>>, bo)

\* no representation test: whatever is neither Tensor nor PIL goes to F_cv2
erase(img, i, j, h, w, v, inplace, bo) ==
    LET a == [img |-> img, i |-> i, j |-> j, h |-> h, w |-> w, v |-> v, inplace |-> inplace]
    IN  IF _is_tensor_image(img) THEN ReturnBackend("F_t", "erase", a, <<>>, bo)
        ELSE IF _is_pil_image(img) THEN ReturnBackend("F_pil", "erase", a, <<>>, bo)
        ELSE ReturnBackend("F_cv2", "erase", a, <<>>, bo)

(***************************************************************************)
(* affine.  A Python argument is a record [ty, v]: ty its type ("int",     *)
(* "float", "str", "list", "tuple", "None") and v its numbers (one number  *)
(* for a scalar, the elements for a list or tuple).                        *)
(***************************************************************************)
IsNumber(x) == x.ty \in {"int", "float"}
\* isinstance(x, (list, tuple)) widened to admit a number
IsSequence_or_number(x) == x.ty \in {"list", "tuple", "int", "float"}

IsSequence(x) == x.ty \in {"list", "tuple"}
Half(x) == RMul(x, Rat(1, 2))

\* len(translate) != 2 tested as len(translate) > 2
translate_length_ok_upper_only(translate) == Len(translate.v) <= 2

\* not (len(translate) != 2)
translate_length_ok(translate) == Len(translate.v) = 2

\* scale <= 0.0 tested as scale < 0.0
scale_positive_accepts_zero(scale) == RLeq(R(0), scale)

\* not (scale <= 0.0)
scale_positive(scale) == ~RLeq(scale, R(0))

\* a one-element shear completed with 0.0 instead of being repeated
normalize_shear_pads_zero(shear) ==
    LET s1 == IF IsNumber(shear) THEN <<shear.v[1], R(0)>> ELSE shear.v
    IN  IF Len(s1) = 1 THEN <<s1[1], R(0)>> ELSE s1

\* shear after "shear = [shear, 0.0]", "list(shear)" and
\* "shear = [shear[0], shear[0]]"
normalize_shear(shear) ==
    LET s1 == IF IsNumber(shear) THEN <<shear.v[1], R(0)>> ELSE shear.v
    IN  IF Len(s1) = 1 THEN <<s1[1], s1[1]>> ELSE s1

\* [1.0 * (c - s * 0.5) for c, s in zip(center, [width, height])] with
\* height, width = img.shape[-1], img.shape[-2]; zip stops at the shorter
tensor_center_f(img, center) ==
    LET sh == shape(img)
        height == sh[Len(sh)]
        width == sh[Len(sh) - 1]
        dims == <<width, height>>
        n == IF Len(center.v) < 2 THEN Len(center.v) ELSE 2
    IN  [k \in 1..n |-> RSub(center.v[k], Half(dims[k]))]

MatrixEvent(center, angle, translate, scale, shear, out) ==
    [ev |-> "matrix", center |-> center, angle |-> angle, translate |-> translate,
     scale |-> scale, shear |-> shear, out |-> out]

\* an exception of _get_affine_matrix reaches the caller of affine: the
\* ValueError of "cx, cy = center" or the ZeroDivisionError of "x / scale"
RaiseFromBuilder(out, evs) ==
    Raise(IF out.raised = "ValueError" THEN "InvalidArgument" ELSE "ArithmeticError",
          out.raised, "none", evs)

\* the default center with the pixel-center offset: width * 0.5 + 0.5
affine_pil_offset_center(img, angle, translate, scale, shear, interpolation, fill, center, bo) ==
    LET c == IF center.ty = "None"
             THEN <<RAdd(Half(size(img)[1]), Rat(1, 2)),
                    RAdd(Half(size(img)[2]), Rat(1, 2))>>
             ELSE center.v
        out == _get_affine_matrix(c, angle, translate, scale, shear)
        e == <<MatrixEvent(c, angle, translate, scale, shear, out)>>
    IN  IF out.raised # NoError
        THEN RaiseFromBuilder(out, e)
        ELSE ReturnBackend("F_pil", "affine",
                           [img |-> img, matrix |-> out.matrix,
                            interpolation |-> interpolation, fill |-> fill], e, bo)

affine_pil(img, angle, translate, scale, shear, interpolation, fill, center, bo) ==
    LET c == IF center.ty = "None"
             THEN <<Half(size(img)[1]), Half(size(img)[2])>>
             ELSE center.v
        out == _get_affine_matrix(c, angle, translate, scale, shear)
        e == <<MatrixEvent(c, angle, translate, scale, shear, out)>>
    IN  IF out.raised # NoError
        THEN RaiseFromBuilder(out, e)
        ELSE ReturnBackend("F_pil", "affine",
                           [img |-> img, matrix |-> out.matrix,
                            interpolation |-> interpolation, fill |-> fill], e, bo)

affine_numpy(img, angle, translate, scale, shear, interpolation, fill, center, bo) ==
    LET width == shape(img)[1]
        height == shape(img)[2]
        c == IF center.ty = "None" THEN <<Half(width), Half(height)>> ELSE center.v
    IN  ReturnBackend("F_cv2", "affine",
                      [img |-> img, angle |-> angle, translate |-> translate,
                       scale |-> scale, shear |-> shear,
                       interpolation |-> interpolation, fill |-> fill,
                       center |-> c], <<>>, bo)

affine_tensor(img, angle, translate, scale, shear, interpolation, fill, center, bo) ==
    LET center_f == IF center.ty = "None" THEN <<R(0), R(0)>>
                    ELSE tensor_center_f(img, center)
        translate_f == [k \in 1..Len(translate) |-> RMul(R(1), translate[k])]
        out == _get_affine_matrix(center_f, angle, translate_f, scale, shear)
        e == <<MatrixEvent(center_f, angle, translate_f, scale, shear, out)>>
    IN  IF out.raised # NoError
        THEN RaiseFromBuilder(out, e)
        ELSE ReturnBackend("F_t", "affine",
                           [img |-> img, matrix |-> out.matrix,
                            interpolation |-> interpolation, fill |-> fill], e, bo)

\* the length of shear tested right after its type, before interpolation
affine_shear_length_first(img, angle, translate, scale, shear, interpolation, fill, center, bo) ==
    IF ~is_image(img) THEN RaiseNotImage
    ELSE IF ~IsNumber(angle)
    THEN Raise("InvalidArgument", "TypeError", "angle", <<>>)
    ELSE IF ~IsSequence(translate)
    THEN Raise("InvalidArgument", "TypeError", "translate", <<>>)
    ELSE IF ~translate_length_ok(translate)
    THEN Raise("InvalidArgument", "ValueError", "translate", <<>>)
    ELSE IF ~scale_positive(scale)
    THEN Raise("InvalidArgument", "ValueError", "scale", <<>>)
    ELSE IF ~(IsNumber(shear) \/ IsSequence(shear))
    THEN Raise("InvalidArgument", "TypeError", "shear", <<>>)
    ELSE LET angle_f == angle.v[1]
             translate_l == translate.v
             shear_l == normalize_shear(shear)
         IN  IF Len(shear_l) # 2
             THEN Raise("InvalidArgument", "ValueError", "shear", <<>>)
             ELSE IF interpolation.ty # "str"
             THEN Raise("InvalidArgument", "TypeError", "interpolation", <<>>)
             ELSE IF center.ty # "None" /\ ~IsSequence(center)
             THEN Raise("InvalidArgument", "TypeError", "center", <<>>)
             ELSE IF _is_pil_image(img)
             THEN affine_pil(img, angle_f, translate_l, scale, shear_l,
                             interpolation, fill, center, bo)
             ELSE IF _is_numpy_image(img)
             THEN affine_numpy(img, angle_f, translate_l, scale, shear_l,
                               interpolation, fill, center, bo)
             ELSE affine_tensor(img, angle_f, translate_l, scale, shear_l,
                                interpolation, fill, center, bo)

affine(img, angle, translate, scale, shear, interpolation, fill, center, bo) ==
    IF ~is_image(img) THEN RaiseNotImage
    ELSE IF ~IsNumber(angle)
    THEN Raise("InvalidArgument", "TypeError", "angle", <<>>)
    ELSE IF ~IsSequence(translate)
    THEN Raise("InvalidArgument", "TypeError", "translate", <<>>)
    ELSE IF ~translate_length_ok(translate)
    THEN Raise("InvalidArgument", "ValueError", "translate", <<>>)
    ELSE IF ~scale_positive(scale)
    THEN Raise("InvalidArgument", "ValueError", "scale", <<>>)
    ELSE IF ~(IsNumber(shear) \/ IsSequence(shear))
    THEN Raise("InvalidArgument", "TypeError", "shear", <<>>)
    ELSE IF interpolation.ty # "str"
    THEN Raise("InvalidArgument", "TypeError", "interpolation", <<>>)
    ELSE LET angle_f == angle.v[1]
             translate_l == translate.v
             shear_l == normalize_shear(shear)
         IN  IF Len(shear_l) # 2
             THEN Raise("InvalidArgument", "ValueError", "shear", <<>>)
             ELSE IF center.ty # "None" /\ ~IsSequence(center)
             THEN Raise("InvalidArgument", "TypeError", "center", <<>>)
             ELSE IF _is_pil_image(img)
             THEN affine_pil(img, angle_f, translate_l, scale, shear_l,
                             interpolation, fill, center, bo)
             ELSE IF _is_numpy_image(img)
             THEN affine_numpy(img, angle_f, translate_l, scale, shear_l,
                               interpolation, fill, center, bo)
             ELSE affine_tensor(img, angle_f, translate_l, scale, shear_l,
                                interpolation, fill, center, bo)

(***************************************************************************)
(* perspective: F_pil and F_t receive the solved coefficients, F_cv2 the   *)
(* point lists.                                                            *)
(***************************************************************************)
CoeffsEvent(startpoints, endpoints, out) ==
    [ev |-> "coeffs", startpoints |-> startpoints, endpoints |-> endpoints, out |-> out]

\* the tensor branch handing the point lists to F_t as the array branch does
perspective_tensor_points(img, startpoints, endpoints, interpolation, fill, bo) ==
    LET out == _get_perspective_coeffs(startpoints, endpoints)
        e == <<CoeffsEvent(startpoints, endpoints, out)>>
        a == [img |-> img, coeffs |-> out.x, interpolation |-> interpolation, fill |-> fill]
        pts == [img |-> img, startpoints |-> startpoints, endpoints |-> endpoints,
                interpolation |-> interpolation, fill |-> fill]
    IN  IF ~is_image(img) THEN RaiseNotImage
        ELSE IF _is_pil_image(img) THEN ReturnBackend("F_pil", "perspective", a, e, bo)
        ELSE IF _is_tensor_image(img) THEN ReturnBackend("F_t", "perspective", pts, <<>>, bo)
        ELSE ReturnBackend("F_cv2", "perspective", pts, <<>>, bo)

perspective(img, startpoints, endpoints, interpolation, fill, bo) ==
    LET out == _get_perspective_coeffs(startpoints, endpoints)
        e == <<CoeffsEvent(startpoints, endpoints, out)>>
        a == [img |-> img, coeffs |-> out.x, interpolation |-> interpolation, fill |-> fill]
    IN  IF ~is_image(img) THEN RaiseNotImage
        ELSE IF _is_pil_image(img) THEN ReturnBackend("F_pil", "perspective", a, e, bo)
        ELSE IF _is_tensor_image(img) THEN ReturnBackend("F_t", "perspective", a, e, bo)
        ELSE ReturnBackend("F_cv2", "perspective",
                           [img |-> img, startpoints |-> startpoints,
                            endpoints |-> endpoints,
                            interpolation |-> interpolation, fill |-> fill], <<>>, bo)

(***************************************************************************)
(* The calls of the public operations: one call at a time, from idle to    *)
(* done and back.                                                          *)
(***************************************************************************)
\* four points [top-left, top-right, bottom-right, bottom-left]
Rect(x0, w, h) == <<<<x0, 0>>, <<x0 + w, 0>>, <<x0 + w, h>>, <<x0, h>>>>
Trapezoid(w, h) == <<<<1, 0>>, <<w + 1, 0>>, <<w + 2, h>>, <<0, h>>>>
ThreeInLine == <<<<0, 0>>, <<1, 0>>, <<2, 0>>, <<0, 1>>>>

NoCall == [op |-> "none"]
NoResult == [raised |-> NoError]

ImageSizes == {<<4, 2>>, <<3, 3>>}

Images ==
    {[cls |-> "Image", ndim |-> 3, w |-> s[1], h |-> s[2], dtype |-> "uint8"] :
        s \in ImageSizes}
    \cup {[cls |-> "ndarray", ndim |-> n, w |-> s[1], h |-> s[2], dtype |-> "float32"] :
        n \in 2..MaxRank, s \in ImageSizes}
    \cup {[cls |-> "Tensor", ndim |-> 3, w |-> s[1], h |-> s[2], dtype |-> "float32"] :
        s \in ImageSizes}
    \cup {[cls |-> "Variable", ndim |-> 3, w |-> 4, h |-> 2, dtype |-> "float32"],
          [cls |-> "str", ndim |-> 0, w |-> 0, h |-> 0, dtype |-> "none"]}

NumSeq(n) == [i \in 1..n |-> R(i)]
ShearSeq(n) == [i \in 1..n |-> IF i % 2 = 1 THEN Deg37 ELSE DegM37]
Scalar(ty, x) == [ty |-> ty, v |-> <<x>>]
None == [ty |-> "None", v |-> <<>>]

Angles == {Scalar("int", Deg90), Scalar("float", Deg53), Scalar("str", Deg0)}
Translates ==
    {[ty |-> "list", v |-> NumSeq(n)] : n \in 0..MaxLen}
    \cup {[ty |-> "tuple", v |-> <<R(-1), R(0)>>],
          [ty |-> "tuple", v |-> NumSeq(MaxLen)], Scalar("int", R(1))}
Scales == {R(1), Rat(1, 2), R(0), R(-1)}
Shears ==
    {[ty |-> "list", v |-> ShearSeq(n)] : n \in 0..MaxLen}
    \cup {[ty |-> "tuple", v |-> <<DegM37, Deg53>>],
          [ty |-> "tuple", v |-> ShearSeq(MaxLen)], Scalar("int", Deg37),
          [ty |-> "str", v |-> <<>>]}
Interpolations == {[ty |-> "str", v |-> "nearest"], [ty |-> "int", v |-> "0"]}
Centers ==
    {[ty |-> "list", v |-> NumSeq(n)] : n \in 0..MaxLen}
    \cup {[ty |-> "tuple", v |-> <<R(2), R(1)>>],
          [ty |-> "tuple", v |-> NumSeq(MaxLen)], Scalar("int", R(1)), None}
Paddings ==
    {[ty |-> "list", v |-> NumSeq(n)] : n \in 1..MaxPadLen}
    \cup {Scalar("int", R(1)), [ty |-> "tuple", v |-> <<R(2), R(1)>>]}
Fills == {Scalar("int", R(0)), [ty |-> "list", v |-> <<R(1), R(2), R(3)>>]}
DataFormats == {"CHW", "chw", "HWC"}
PointLists == {Rect(0, 2, 1), Trapezoid(2, 2)}

Init ==
    /\ pc = "idle"
    /\ call = NoCall
    /\ result = NoResult
    /\ events = <<>>

\* the call c returned or raised as the trace t says
Finish(c, t) ==
    /\ pc' = "done"
    /\ call' = c
    /\ result' = [raised |-> t.raised, exc |-> t.exc, arg |-> t.arg, ret |-> t.ret]
    /\ events' = t.events

ToTensor ==
    /\ pc = "idle"
    /\ \E img \in Images, df \in DataFormats, bo \in BackendOutcomes :
        Finish([op |-> "to_tensor", img |-> img, data_format |-> df],
               to_tensor(img, df, bo))

Resize ==
    /\ pc = "idle"
    /\ \E img \in Images, sz \in {<<2, 3>>}, bo \in BackendOutcomes :
        Finish([op |-> "resize", img |-> img, size |-> sz],
               resize(img, sz, "bilinear", bo))

Pad ==
    /\ pc = "idle"
    /\ \E img \in Images, padding \in Paddings, bo \in BackendOutcomes :
        Finish([op |-> "pad", img |-> img, padding |-> padding],
               pad(img, padding, Scalar("int", R(0)), "constant", bo))

Crop ==
    /\ pc = "idle"
    /\ \E img \in Images, top \in 0..1, bo \in BackendOutcomes :
        Finish([op |-> "crop", img |-> img, top |-> top],
               crop(img, top, 0, 1, 2, bo))

CenterCrop ==
    /\ pc = "idle"
    /\ \E img \in Images, bo \in BackendOutcomes :
        Finish([op |-> "center_crop", img |-> img],
               center_crop(img, <<1, 2>>, bo))

HFlip ==
    /\ pc = "idle"
    /\ \E img \in Images, bo \in BackendOutcomes :
        Finish([op |-> "hflip", img |-> img], hflip(img, bo))

VFlip ==
    /\ pc = "idle"
    /\ \E img \in Images, bo \in BackendOutcomes :
        Finish([op |-> "vflip", img |-> img], vflip(img, bo))

AdjustBrightness ==
    /\ pc = "idle"
    /\ \E img \in Images, f \in {R(0), Rat(1, 2)}, bo \in BackendOutcomes :
        Finish([op |-> "adjust_brightness", img |-> img, factor |-> f],
               adjust_brightness(img, f, bo))

AdjustContrast ==
    /\ pc = "idle"
    /\ \E img \in Images, f \in {R(0), Rat(1, 2)}, bo \in BackendOutcomes :
        Finish([op |-> "adjust_contrast", img |-> img, factor |-> f],
               adjust_contrast(img, f, bo))

AdjustSaturation ==
    /\ pc = "idle"
    /\ \E img \in Images, f \in {R(0), Rat(1, 2)}, bo \in BackendOutcomes :
        Finish([op |-> "adjust_saturation", img |-> img, factor |-> f],
               adjust_saturation(img, f, bo))

AdjustHue ==
    /\ pc = "idle"
    /\ \E img \in Images, f \in {R(0), Rat(1, 2)}, bo \in BackendOutcomes :
        Finish([op |-> "adjust_hue", img |-> img, factor |-> f],
               adjust_hue(img, f, bo))

Affine ==
    /\ pc = "idle"
    /\ \E img \in Images, angle \in Angles, translate \in Translates,
       scale \in Scales, shear \in Shears, interpolation \in Interpolations,
       center \in Centers, bo \in BackendOutcomes :
        Finish([op |-> "affine", img |-> img, angle |-> angle,
                translate |-> translate, scale |-> scale, shear |-> shear,
                interpolation |-> interpolation, center |-> center],
               affine(img, angle, translate, scale, shear, interpolation,
                      Scalar("int", R(0)), center, bo))

Rotate ==
    /\ pc = "idle"
    /\ \E img \in Images, angle \in {Deg90, Deg53}, expand \in BOOLEAN,
       center \in {None, [ty |-> "list", v |-> NumSeq(2)]}, fill \in Fills,
       bo \in BackendOutcomes :
        Finish([op |-> "rotate", img |-> img, angle |-> angle, expand |-> expand,
                center |-> center, fill |-> fill],
               rotate(img, angle, "nearest", expand, center, fill, bo))

Perspective ==
    /\ pc = "idle"
    /\ \E img \in Images, sp \in PointLists, ep \in PointLists, bo \in BackendOutcomes :
        Finish([op |-> "perspective", img |-> img, startpoints |-> sp,
                endpoints |-> ep],
               perspective(img, sp, ep, "nearest", Scalar("int", R(0)), bo))

ToGrayscale ==
    /\ pc = "idle"
    /\ \E img \in Images, n \in {1, 3}, bo \in BackendOutcomes :
        Finish([op |-> "to_grayscale", img |-> img, num_output_channels |-> n],
               to_grayscale(img, n, bo))

Normalize ==
    /\ pc = "idle"
    /\ \E img \in Images, df \in DataFormats, to_rgb \in BOOLEAN, bo \in BackendOutcomes :
        Finish([op |-> "normalize", img |-> img, data_format |-> df, to_rgb |-> to_rgb],
               normalize(img, NumSeq(3), NumSeq(3), df, to_rgb, bo))

Erase ==
    /\ pc = "idle"
    /\ \E img \in Images, inplace \in BOOLEAN, bo \in BackendOutcomes :
        Finish([op |-> "erase", img |-> img, inplace |-> inplace],
               erase(img, 0, 1, 1, 2, R(0), inplace, bo))

\* the caller takes the result; the engine keeps nothing between calls
Return ==
    /\ pc = "done"
    /\ pc' = "idle"
    /\ call' = NoCall
    /\ result' = NoResult
    /\ events' = <<>>

Next ==
    \/ ToTensor \/ Resize \/ Pad \/ Crop \/ CenterCrop \/ HFlip \/ VFlip
    \/ AdjustBrightness \/ AdjustContrast \/ AdjustSaturation \/ AdjustHue
    \/ Affine \/ Rotate \/ Perspective \/ ToGrayscale \/ Normalize \/ Erase
    \/ Return

Spec == Init /\ [][Next]_vars

(***************************************************************************)
(* The two derivations as pure functions: the inputs are drawn by Init.    *)
(***************************************************************************)
AngleDegrees == {Deg0, Deg90, Deg180, DegM90, Deg360, Deg37, Deg53, DegM37}
\* shear angles: +-90 degrees (cos = 0) are left out
ShearDegrees == {Deg0, Deg37, DegM37, Deg53}
Coords == {R(x) : x \in 0..MaxCoord}
MatrixCenters == {<<x, y>> : x \in Coords, y \in Coords}
MatrixTranslates == {<<R(0), R(0)>>, <<R(1), R(2)>>, <<R(-1), R(0)>>}
MatrixScales == {R(1), R(2), Rat(1, 2), R(-1), R(0)}
MatrixShears == {<<x, y>> : x \in ShearDegrees, y \in ShearDegrees}

InitMatrix ==
    /\ pc = "ready"
    /\ call \in [op : {"_get_affine_matrix"}, center : MatrixCenters,
                 angle : AngleDegrees, translate : MatrixTranslates,
                 scale : MatrixScales, shear : MatrixShears]
    /\ result = NoResult
    /\ events = <<>>

BuildMatrix ==
    /\ pc = "ready"
    /\ call.op = "_get_affine_matrix"
    /\ result' = _get_affine_matrix(call.center, call.angle, call.translate,
                                    call.scale, call.shear)
    /\ pc' = "done"
    /\ UNCHANGED <<call, events>>

NextMatrix == BuildMatrix

SpecMatrix == InitMatrix /\ [][NextMatrix]_vars

Sides == 1..MaxSide
Quads ==
    {Rect(x0, w, h) : x0 \in 0..1, w \in Sides, h \in Sides}
        \cup {Trapezoid(w, h) : w \in Sides, h \in Sides}
        \cup {ThreeInLine}

InitPerspective ==
    /\ pc = "ready"
    /\ call \in [op : {"_get_perspective_coeffs"}, startpoints : Quads,
                 endpoints : Quads]
    /\ result = NoResult
    /\ events = <<>>

SolvePerspective ==
    /\ pc = "ready"
    /\ call.op = "_get_perspective_coeffs"
    /\ result' = _get_perspective_coeffs(call.startpoints, call.endpoints)
    /\ pc' = "done"
    /\ UNCHANGED <<call, events>>

NextPerspective == SolvePerspective

SpecPerspective == InitPerspective /\ [][NextPerspective]_vars

(***************************************************************************)
(* Claims about the public operations (Spec).                              *)
(***************************************************************************)
PublicOps ==
    {"resize", "pad", "crop", "center_crop", "hflip", "vflip",
     "adjust_brightness", "adjust_contrast", "adjust_saturation", "adjust_hue",
     "affine", "rotate", "perspective", "to_grayscale", "normalize", "erase",
     "to_tensor"}

Done(op) == pc = "done" /\ call.op = op
PublicDone == pc = "done" /\ call.op \in PublicOps
Recognized == Kind(call.img) # "none"
NoBackendInvoked == \A i \in DOMAIN events : events[i].ev # "backend"
MatrixRuns == {i \in DOMAIN events : events[i].ev = "matrix"}

\* C1: in every public operation an image that is no grid-image, no
\* array-image of rank 2 or 3 and no tensor-image makes the call fail with
\* UnsupportedType before anything else: nothing is validated, built or invoked.
C1_UnsupportedRejectedFirst ==
    (PublicDone /\ ~Recognized) =>
        (result.raised = "UnsupportedType" /\ events = <<>>)

ChecksBeforeShearPass ==
    /\ Recognized
    /\ IsNumber(call.angle)
    /\ IsSequence(call.translate) /\ Len(call.translate.v) = 2
    /\ IsPositive(call.scale)
    /\ call.interpolation.ty = "str"

\* every shear handed to the matrix builder or to F_cv2.affine
ShearsSeen ==
    {events[i].shear : i \in MatrixRuns}
        \cup {events[i].args.shear :
                i \in {j \in DOMAIN events :
                        events[j].ev = "backend" /\ events[j].be = "F_cv2"}}

ShearAccepted ==
    IsNumber(call.shear)
        \/ (IsSequence(call.shear) /\ Len(call.shear.v) \in {1, 2})

ShearExpected ==
    IF IsNumber(call.shear) THEN <<call.shear.v[1], R(0)>>
    ELSE IF Len(call.shear.v) = 1 THEN <<call.shear.v[1], call.shear.v[1]>>
    ELSE call.shear.v

\* C3: in affine a scalar shear s becomes [s, 0], a sequence [s] becomes
\* [s, s], a sequence [x, y] is kept, and this is the shear the matrix builder
\* or the array backend receives; a list or tuple of any other length makes
\* the call fail with InvalidArgument with nothing built or invoked.
C3_ShearNormalization ==
    Done("affine") =>
        /\ (ChecksBeforeShearPass /\ ShearAccepted) =>
                /\ ShearsSeen \subseteq {ShearExpected}
                /\ (call.center.ty = "None" \/ IsSequence(call.center)) =>
                        ShearsSeen # {}
        /\ (Recognized /\ IsSequence(call.shear) /\ ~ShearAccepted) =>
                (result.raised = "InvalidArgument" /\ events = <<>>)
        /\ (ChecksBeforeShearPass /\ IsSequence(call.shear) /\ ~ShearAccepted) =>
                (result.exc = "ValueError" /\ result.arg = "shear")

C3_Witness ==
    /\ Done("affine")
    /\ call.shear = [ty |-> "list", v |-> <<Deg37>>]
    /\ ShearsSeen = {<<Deg37, Deg37>>}
    /\ result.raised = NoError

\* C4: for every recognized image, affine with a translate that is not a
\* sequence of exactly two elements fails with InvalidArgument, with no matrix
\* built and no backend invoked; a two-element translate is never the reason
\* of a failure.
C4_TranslateLength ==
    (Done("affine") /\ Recognized) =>
        /\ ~(IsSequence(call.translate) /\ Len(call.translate.v) = 2) =>
                (result.raised = "InvalidArgument" /\ events = <<>>)
        /\ (IsSequence(call.translate) /\ Len(call.translate.v) = 2) =>
                result.arg # "translate"

C4_Witness ==
    /\ Done("affine")
    /\ Kind(call.img) = "tensor"
    /\ IsNumber(call.angle)
    /\ call.translate = [ty |-> "list", v |-> NumSeq(3)]
    /\ result.raised = "InvalidArgument"
    /\ result.exc = "ValueError"
    /\ result.arg = "translate"
    /\ events = <<>>

\* C5: for every recognized image, affine with scale = 0 or scale < 0 fails
\* with InvalidArgument with nothing built or invoked, so that no run of the
\* matrix builder made by affine has scale <= 0.
C5_ScalePositive ==
    (Done("affine") /\ Recognized) =>
        /\ ~IsPositive(call.scale) =>
                (result.raised = "InvalidArgument" /\ events = <<>>)
        /\ \A i \in MatrixRuns : IsPositive(events[i].scale)

C5_Witness ==
    /\ Done("affine")
    /\ Kind(call.img) = "grid"
    /\ IsNumber(call.angle)
    /\ IsSequence(call.translate) /\ Len(call.translate.v) = 2
    /\ call.scale = R(0)
    /\ result.raised = "InvalidArgument"
    /\ result.arg = "scale"
    /\ events = <<>>

\* C6: in affine an explicit center sequence that has not two elements is
\* rejected with InvalidArgument for every representation kind: no backend is
\* invoked with it and no matrix is built from a center cut or filled up to
\* two elements.
C6_CenterLengthRejected ==
    (/\ Done("affine")
     /\ Recognized
     /\ IsSequence(call.center)
     /\ Len(call.center.v) # 2) =>
        /\ result.raised = "InvalidArgument"
        /\ NoBackendInvoked
        /\ \A i \in MatrixRuns : Len(events[i].center) # 2

\* C7 as stated: pad checks its padding before dispatch; a padding whose
\* length is not 1, 2 or 4 makes pad fail with InvalidArgument with no backend
\* invoked.
C7_PadValidatesBeforeDispatch ==
    (Done("pad") /\ Recognized /\ Len(call.padding.v) \notin {1, 2, 4}) =>
        (result.raised = "InvalidArgument" /\ events = <<>>)

\* C7 amended: pad checks no padding: for every recognized image it invokes
\* exactly the backend of the image's kind with the padding as given, whatever
\* its length (1, 2, 4 or any other), and the call returns or fails as that
\* backend does.
C7_PadForwardsPadding ==
    (Done("pad") /\ Recognized) =>
        /\ Len(events) = 1
        /\ events[1].ev = "backend"
        /\ events[1].fn = "pad"
        /\ BackendKind(events[1].be) = Kind(call.img)
        /\ events[1].args.padding = call.padding
        /\ result.raised \in {NoError, "BackendError"}

C7_Witness ==
    /\ Done("pad")
    /\ Kind(call.img) = "grid"
    /\ call.padding = [ty |-> "list", v |-> NumSeq(3)]
    /\ Len(events) = 1
    /\ events[1].be = "F_pil"
    /\ result.raised = NoError

BackendRuns == {i \in DOMAIN events : events[i].ev = "backend"}

\* the un-offset midpoint (W * 0.5, H * 0.5) of the image of the call
Midpoint == <<Rat(call.img.w, 2), Rat(call.img.h, 2)>>

\* C13: for a grid-image of width W and height H every run of the matrix
\* builder made by affine receives the center (W*0.5, H*0.5) when the call
\* gives no center, and the caller's center unchanged when it gives one.
C13_GridCenter ==
    (Done("affine") /\ Kind(call.img) = "grid") =>
        \A i \in MatrixRuns :
            events[i].center =
                IF call.center.ty = "None" THEN Midpoint ELSE call.center.v

C13_Witness ==
    /\ Done("affine")
    /\ Kind(call.img) = "grid"
    /\ call.img.w = 4
    /\ call.img.h = 2
    /\ call.center = None
    /\ MatrixRuns = {1}
    /\ events[1].center = <<R(2), R(1)>>
    /\ result.raised = NoError

\* C14: for an array-image of H rows and W columns, affine called without a
\* center hands the array backend the center (W*0.5, H*0.5).
C14_ArrayDefaultCenter ==
    (Done("affine") /\ Kind(call.img) = "array" /\ call.center = None) =>
        \A i \in BackendRuns : events[i].args.center = Midpoint

\* C15: for a tensor-image of width W and height H the matrix builder
\* receives the center as an offset from the midpoint: (0, 0) when the call
\* gives no center and (cx - W/2, cy - H/2) for an explicit center (cx, cy),
\* so that the explicit center (W/2, H/2) is built as (0, 0) too.
C15_TensorCenterOffset ==
    (/\ Done("affine")
     /\ Kind(call.img) = "tensor"
     /\ (call.center.ty = "None" \/ Len(call.center.v) = 2)) =>
        \A i \in MatrixRuns :
            events[i].center =
                IF call.center.ty = "None"
                THEN <<R(0), R(0)>>
                ELSE <<RSub(call.center.v[1], Midpoint[1]),
                       RSub(call.center.v[2], Midpoint[2])>>

Succeeded == result.raised = NoError

\* a successful affine call ran the builder once on the normalized parameters
\* and then invoked the backend with the matrix, interpolation and fill only
AffineDerivedFlow ==
    /\ Len(events) = 2
    /\ events[1].ev = "matrix"
    /\ events[1].angle = call.angle.v[1]
    /\ events[1].translate = call.translate.v
    /\ events[1].shear = ShearExpected
    /\ events[1].out.raised = NoError
    /\ events[2].ev = "backend"
    /\ DOMAIN events[2].args = {"img", "matrix", "interpolation", "fill"}
    /\ events[2].args.matrix = events[1].out.matrix
    /\ Len(events[2].args.matrix) = 6

\* a successful perspective call ran the solver once and then invoked the
\* backend with the 8 coefficients, interpolation and fill only
PerspectiveDerivedFlow ==
    /\ Len(events) = 2
    /\ events[1].ev = "coeffs"
    /\ events[1].startpoints = call.startpoints
    /\ events[1].endpoints = call.endpoints
    /\ events[2].ev = "backend"
    /\ DOMAIN events[2].args = {"img", "coeffs", "interpolation", "fill"}
    /\ events[2].args.coeffs = events[1].out.x
    /\ Len(events[2].args.coeffs) = 8

DerivedFlow(kinds) ==
    /\ (Done("affine") /\ Succeeded /\ Kind(call.img) \in kinds) => AffineDerivedFlow
    /\ (Done("perspective") /\ Succeeded /\ Kind(call.img) \in kinds) =>
            PerspectiveDerivedFlow

\* a successful call on an array-image ran neither the builder nor the solver
\* and invoked F_cv2 once with the normalized parameters themselves
ArrayRawFlow ==
    /\ (Done("affine") /\ Succeeded /\ Kind(call.img) = "array") =>
            /\ Len(events) = 1
            /\ events[1].ev = "backend"
            /\ events[1].be = "F_cv2"
            /\ DOMAIN events[1].args =
                    {"img", "angle", "translate", "scale", "shear",
                     "interpolation", "fill", "center"}
            /\ events[1].args.angle = call.angle.v[1]
            /\ events[1].args.translate = call.translate.v
            /\ events[1].args.scale = call.scale
            /\ events[1].args.shear = ShearExpected
    /\ (Done("perspective") /\ Succeeded /\ Kind(call.img) = "array") =>
            /\ Len(events) = 1
            /\ events[1].ev = "backend"
            /\ events[1].be = "F_cv2"
            /\ DOMAIN events[1].args =
                    {"img", "startpoints", "endpoints", "interpolation", "fill"}
            /\ events[1].args.startpoints = call.startpoints
            /\ events[1].args.endpoints = call.endpoints

\* C17 as stated: in every successful affine or perspective call, for every
\* representation kind, the parameters are normalized, the builder (resp.
\* the solver) runs exactly once, and only then the backend is invoked, with
\* the derived matrix (resp. coefficients), interpolation and fill and none
\* of the caller's angle, translate, scale, shear, center or point lists.
C17_DerivedFlowEveryKind == DerivedFlow({"grid", "array", "tensor"})

\* C17 amended: the flow above holds for grid-images and tensor-images; for
\* an array-image neither the builder nor the solver runs and the array
\* backend is invoked once with the normalized angle, translate, scale,
\* shear and center (resp. the two point lists) themselves.
C17_DerivedFlowGridTensor == DerivedFlow({"grid", "tensor"}) /\ ArrayRawFlow

C17_Witness ==
    /\ Done("perspective")
    /\ Succeeded
    /\ Kind(call.img) = "tensor"
    /\ call.startpoints = Rect(0, 2, 1)
    /\ call.endpoints = Trapezoid(2, 2)
    /\ PerspectiveDerivedFlow
    /\ events[2].be = "F_t"
    /\ events[2].args.coeffs =
            <<R(1), Rat(1, 2), R(-1), R(0), R(1), R(0), R(0), Rat(1, 2)>>

\* the validations of affine, read off the arguments of the call
AngleOk == call.angle.ty \in {"int", "float"}
TranslateIsSequence == call.translate.ty \in {"list", "tuple"}
TranslateLengthOk == Len(call.translate.v) = 2
ScaleOk == IsPositive(call.scale)
ShearTypeOk == call.shear.ty \in {"int", "float", "list", "tuple"}
ShearLengthOk ==
    call.shear.ty \in {"int", "float"} \/ Len(call.shear.v) \in {1, 2}
InterpolationOk == call.interpolation.ty = "str"
CenterOk == call.center.ty \in {"None", "list", "tuple"}

AllValid ==
    /\ Recognized
    /\ AngleOk
    /\ TranslateIsSequence /\ TranslateLengthOk
    /\ ScaleOk
    /\ ShearTypeOk /\ ShearLengthOk
    /\ InterpolationOk
    /\ CenterOk

\* C18: an affine call in which any validation fails (unsupported image,
\* non-numeric angle, translate not a sequence of length 2, scale <= 0, shear
\* of wrong type or length, non-string interpolation, center not a sequence)
\* ends in an error with no run of the matrix builder and no backend
\* invocation: whatever was built or invoked, every validation had succeeded.
C18_NothingRunsOnInvalid ==
    Done("affine") =>
        /\ ~AllValid =>
                /\ result.raised \in {"UnsupportedType", "InvalidArgument"}
                /\ events = <<>>
        /\ events # <<>> => AllValid

C18_Witness ==
    /\ Done("affine")
    /\ Kind(call.img) = "tensor"
    /\ AngleOk /\ TranslateIsSequence /\ TranslateLengthOk /\ ScaleOk
    /\ ShearTypeOk /\ ShearLengthOk /\ InterpolationOk
    /\ call.center = Scalar("int", R(1))
    /\ result.raised = "InvalidArgument"
    /\ result.arg = "center"
    /\ events = <<>>

\* the error of the first failing check in the order: image kind, angle type,
\* translate is a sequence, translate length, scale > 0, shear type,
\* interpolation is a string, shear length, center is a sequence
FirstFailure ==
    IF ~Recognized THEN <<"UnsupportedType", "TypeError", "img">>
    ELSE IF ~AngleOk THEN <<"InvalidArgument", "TypeError", "angle">>
    ELSE IF ~TranslateIsSequence THEN <<"InvalidArgument", "TypeError", "translate">>
    ELSE IF ~TranslateLengthOk THEN <<"InvalidArgument", "ValueError", "translate">>
    ELSE IF ~ScaleOk THEN <<"InvalidArgument", "ValueError", "scale">>
    ELSE IF ~ShearTypeOk THEN <<"InvalidArgument", "TypeError", "shear">>
    ELSE IF ~InterpolationOk THEN <<"InvalidArgument", "TypeError", "interpolation">>
    ELSE IF ~ShearLengthOk THEN <<"InvalidArgument", "ValueError", "shear">>
    ELSE <<"InvalidArgument", "TypeError", "center">>

\* C19: when several arguments of one affine call are malformed, the error
\* reported is that of the first failing check in the fixed order above: an
\* unsupported image with scale <= 0 reports UnsupportedType, a non-string
\* interpolation with a 3-element shear reports the interpolation error.
C19_FirstFailingCheck ==
    (Done("affine") /\ ~AllValid) =>
        <<result.raised, result.exc, result.arg>> = FirstFailure

C19_Witness ==
    /\ Done("affine")
    /\ Recognized /\ AngleOk /\ TranslateIsSequence /\ TranslateLengthOk /\ ScaleOk
    /\ call.interpolation.ty = "int"
    /\ call.shear = [ty |-> "list", v |-> ShearSeq(3)]
    /\ call.center = Scalar("int", R(1))
    /\ result.raised = "InvalidArgument"
    /\ result.exc = "TypeError"
    /\ result.arg = "interpolation"

DirectOps ==
    {"resize", "pad", "crop", "center_crop", "hflip", "vflip",
     "adjust_brightness", "adjust_contrast", "adjust_saturation", "adjust_hue",
     "rotate", "to_grayscale"}

\* the backend service of the representation kind of the image of the call
OwnBackend ==
    CASE Kind(call.img) = "grid"   -> "F_pil"
      [] Kind(call.img) = "array"  -> "F_cv2"
      [] Kind(call.img) = "tensor" -> "F_t"

\* C20: each of resize, pad, crop, center_crop, hflip, vflip, the four
\* adjust_* operations, rotate and to_grayscale, called on an image of a
\* recognized kind, invokes one backend function once, the function of the
\* same name of the backend of the image's own kind, and the call ends as
\* that invocation does: with the value it returned or the error it raised.
C20_OwnBackendOnce ==
    (pc = "done" /\ call.op \in DirectOps /\ Recognized) =>
        /\ Len(events) = 1
        /\ events[1].ev = "backend"
        /\ events[1].be = OwnBackend
        /\ events[1].fn = call.op
        /\ result.raised \in {NoError, "BackendError"}
        /\ result.raised = NoError => result.ret = Kind(call.img)

C20_Witness ==
    /\ Done("adjust_hue")
    /\ call.img.cls = "ndarray"
    /\ call.img.ndim = 2
    /\ events = <<[ev |-> "backend", be |-> "F_cv2", fn |-> "adjust_hue",
                   args |-> [img |-> call.img, factor |-> call.factor]]>>
    /\ result.raised = NoError
    /\ result.ret = "array"

(***************************************************************************)
(* Claims about the affine matrix builder (SpecMatrix).                    *)
(***************************************************************************)
MatrixDone ==
    pc = "done" /\ call.op = "_get_affine_matrix" /\ result.raised = NoError

Det2(p, q, r, s) == RSub(RMul(p, s), RMul(q, r))

Identity6 == <<R(1), R(0), R(0), R(0), R(1), R(0)>>

\* C8: for scale > 0 (the shear angles of the model are never +-90 degrees)
\* the un-scaled block [[a, b], [c, d]] has determinant 1, the returned block
\* [[m0, m1], [m3, m4]] is its adjugate [[d, -b], [-c, a]] divided by scale,
\* and its determinant is 1 / scale^2.
C8_BlockDeterminant ==
    (MatrixDone /\ IsPositive(call.scale)) =>
        LET rs == RotateShear(radians(call.angle), radians(call.shear[1]),
                              radians(call.shear[2]))
            m == result.matrix
        IN  /\ Det2(rs[1], rs[2], rs[3], rs[4]) = R(1)
            /\ m[1] = RDiv(rs[4], call.scale)
            /\ m[2] = RDiv(RNeg(rs[2]), call.scale)
            /\ m[4] = RDiv(RNeg(rs[3]), call.scale)
            /\ m[5] = RDiv(rs[1], call.scale)
            /\ Det2(m[1], m[2], m[4], m[5]) = RDiv(R(1), RMul(call.scale, call.scale))

C8_Witness ==
    /\ MatrixDone
    /\ call.scale = Rat(1, 2)
    /\ call.angle = Deg53
    /\ call.shear = <<Deg37, DegM37>>
    /\ Det2(result.matrix[1], result.matrix[2],
            result.matrix[4], result.matrix[5]) = R(4)

NoTranslateScaleShear ==
    /\ call.translate = <<R(0), R(0)>>
    /\ call.scale = R(1)
    /\ call.shear = <<Deg0, Deg0>>

\* C9 as stated: with translate [0,0], scale 1 and shear [0,0] the matrix is
\* the identity [1,0,0,0,1,0] for every angle and every center.
C9_IdentityForEveryAngle ==
    (MatrixDone /\ NoTranslateScaleShear) => result.matrix = Identity6

\* C9 amended: with translate [0,0], scale 1 and shear [0,0] the matrix is
\* the identity [1,0,0,0,1,0], around every center, exactly when the angle is
\* a multiple of 360 degrees (0 or 360 here).
C9_IdentityAtZeroAngle ==
    (MatrixDone /\ NoTranslateScaleShear) =>
        (result.matrix = Identity6 <=> call.angle \in {Deg0, Deg360})

C9_Witness ==
    /\ MatrixDone
    /\ NoTranslateScaleShear
    /\ call.angle = Deg360
    /\ call.center = <<R(2), R(1)>>
    /\ result.matrix = Identity6

AtOrigin == call.center = <<R(0), R(0)>>

\* C16: with shear [0,0], scale 1, translate [0,0] and center (0,0) the
\* matrix for the angle t is [cos t, sin t, 0, -sin t, cos t, 0]: it is
\* [0,1,0,-1,0,0] for 90 degrees, [1,0,0,0,1,0] for 0, and its product with
\* the clockwise (y down) rotation [[cos t, -sin t], [sin t, cos t]] is the
\* identity.
C16_AngleConvention ==
    (MatrixDone /\ NoTranslateScaleShear /\ AtOrigin) =>
        LET t == radians(call.angle)
            m == result.matrix
        IN  /\ m = <<cos(t), sin(t), R(0), RNeg(sin(t)), cos(t), R(0)>>
            /\ call.angle = Deg90 => m = <<R(0), R(1), R(0), R(-1), R(0), R(0)>>
            /\ call.angle = Deg0 => m = Identity6
            /\ RAdd(RMul(m[1], cos(t)), RMul(m[2], sin(t))) = R(1)
            /\ RAdd(RMul(m[1], RNeg(sin(t))), RMul(m[2], cos(t))) = R(0)
            /\ RAdd(RMul(m[4], cos(t)), RMul(m[5], sin(t))) = R(0)
            /\ RAdd(RMul(m[4], RNeg(sin(t))), RMul(m[5], cos(t))) = R(1)

C16_Witness ==
    /\ MatrixDone
    /\ NoTranslateScaleShear
    /\ AtOrigin
    /\ call.angle = Deg90
    /\ result.matrix = <<R(0), R(1), R(0), R(-1), R(0), R(0)>>

\* the point m * (x, y, 1) for the 2 x 3 matrix m = [m0, m1, m2, m3, m4, m5]
Apply6(m, x, y) ==
    <<RAdd(RAdd(RMul(m[1], x), RMul(m[2], y)), m[3]),
      RAdd(RAdd(RMul(m[4], x), RMul(m[5], y)), m[6])>>

\* C21: for every center (cx, cy), translate (tx, ty), angle, shear and
\* scale > 0 the matrix maps the destination point (cx + tx, cy + ty) to the
\* source point (cx, cy); with translate [0, 0] the center is a fixed point.
C21_CenterMapsBack ==
    (MatrixDone /\ IsPositive(call.scale)) =>
        LET cx == call.center[1]
            cy == call.center[2]
            tx == call.translate[1]
            ty == call.translate[2]
        IN  /\ Apply6(result.matrix, RAdd(cx, tx), RAdd(cy, ty)) = <<cx, cy>>
            /\ call.translate = <<R(0), R(0)>> =>
                    Apply6(result.matrix, cx, cy) = <<cx, cy>>

C21_Witness ==
    /\ MatrixDone
    /\ call.center = <<R(2), R(1)>>
    /\ call.translate = <<R(1), R(2)>>
    /\ call.angle = Deg53
    /\ call.scale = Rat(1, 2)
    /\ call.shear = <<Deg37, DegM37>>
    /\ result.matrix = <<Rat(-27, 40), Rat(8, 5), Rat(-31, 40), Rat(-5, 2), R(0), Rat(17, 2)>>
    /\ Apply6(result.matrix, R(3), R(3)) = <<R(2), R(1)>>

(***************************************************************************)
(* Claims about the perspective coefficient solver (SpecPerspective).      *)
(***************************************************************************)
PerspectiveDone == pc = "done" /\ call.op = "_get_perspective_coeffs"

Cross(p, q, r) ==
    (q[1] - p[1]) * (r[2] - p[2]) - (q[2] - p[2]) * (r[1] - p[1])

\* no three of the four points on one line
GeneralPosition(pts) ==
    \A i \in 1..4 : \A j \in (i + 1)..4 : \A k \in (j + 1)..4 :
        Cross(pts[i], pts[j], pts[k]) # 0

Identity8 == <<R(1), R(0), R(0), R(0), R(1), R(0), R(0), R(0)>>

\* C10: for four start points in general position and end_points equal to
\* start_points the system has full rank and the solver returns the identity
\* coefficients [1,0,0,0,1,0,0,0].
C10_PerspectiveIdentity ==
    (/\ PerspectiveDone
     /\ call.endpoints = call.startpoints
     /\ GeneralPosition(call.startpoints)) =>
        (result.full_rank /\ result.x = Identity8)

C10_Witness ==
    /\ PerspectiveDone
    /\ call.startpoints = Trapezoid(2, 1)
    /\ call.endpoints = Trapezoid(2, 1)
    /\ result.full_rank
    /\ result.x = Identity8

\* the projective relation q * (g*x + h*y + 1) = (a*x + b*y + c, d*x + e*y + f)
\* for p = (x, y) and coefficients k = [a, b, c, d, e, f, g, h]
ProjDen(k, p) == RAdd(RAdd(RMul(k[7], R(p[1])), RMul(k[8], R(p[2]))), R(1))
ProjNumX(k, p) == RAdd(RAdd(RMul(k[1], R(p[1])), RMul(k[2], R(p[2]))), k[3])
ProjNumY(k, p) == RAdd(RAdd(RMul(k[4], R(p[1])), RMul(k[5], R(p[2]))), k[6])
Maps(k, p, q) ==
    /\ RMul(R(q[1]), ProjDen(k, p)) = ProjNumX(k, p)
    /\ RMul(R(q[2]), ProjDen(k, p)) = ProjNumY(k, p)

C12_ForwardMapping ==
    (PerspectiveDone /\ result.full_rank) =>
        \A i \in 1..4 : Maps(result.x, call.startpoints[i], call.endpoints[i])

====
